---- MODULE Spec2Model ----
(***************************************************************************)
(* Model of the summary REST service in src/ml-rest-api/app.py: the        *)
(* Summary table, the five handlers of the /api/summaries resource, the    *)
(* word count and the compression ratio.                                   *)
(*                                                                         *)
(* A text is a sequence of one-character strings; " " is whitespace.       *)
(* A timestamp is a natural number (a reading of the clock).  The          *)
(* compression ratio, a float rounded to two decimals, is kept as the      *)
(* integer number of hundredths of a percent (9.09 is 909).                *)
(* The summarizer is a black box: each call either raises or returns one   *)
(* of the texts of Summaries.                                              *)
(* The clock is taken to advance between two handlers' readings of it      *)
(* (datetime.utcnow has microsecond resolution) and never to step back.    *)
(* req and resp hold the exchange being answered: a handler sets them with *)
(* its response and teardown_request clears them.                          *)
(*                                                                         *)
(* Spec serves one request at a time.  SpecThreaded runs update_summary    *)
(* in steps, so that two updates of a row overlap.                         *)
(***************************************************************************)
EXTENDS Integers, Sequences, FiniteSets, TLC

\* bounds of the model
MaxRecords == 2
MaxTime == 3
MaxSummaryWords == 2
MaxRequests == 2

VARIABLES db, now, req, resp, sess

vars == <<db, now, req, resp, sess>>

----------------------------------------------------------------------------
\* texts

Whitespace == {" "}

RECURSIVE SplitAcc(_, _, _)
SplitAcc(s, cur, acc) ==
    IF s = <<>>
    THEN IF cur = <<>> THEN acc ELSE Append(acc, cur)
    ELSE IF Head(s) \in Whitespace
         THEN SplitAcc(Tail(s), <<>>, IF cur = <<>> THEN acc ELSE Append(acc, cur))
         ELSE SplitAcc(Tail(s), Append(cur, Head(s)), acc)

\* str.split() without arguments: the maximal runs of non-whitespace
split(s) == SplitAcc(s, <<>>, <<>>)

RECURSIVE Words(_)
\* a text of n words separated by single spaces
Words(n) ==
    IF n = 0 THEN <<>>
    ELSE IF n = 1 THEN <<"a">>
    ELSE Words(n - 1) \o <<" ", "a">>

\* a text of n >= 1 words with leading, doubled and trailing whitespace
Padded(n) == <<" ">> \o Words(n - 1) \o <<" ", " ", "a", " ">>

MinWords == 10

\* the texts requests carry: empty, one word short of the minimum (with
\* extra whitespace around its words), the minimum, and twice the minimum
Texts == {Words(0), Padded(MinWords - 1), Words(MinWords), Words(2 * MinWords)}

Summaries == {Words(n) : n \in 1..MaxSummaryWords}

Titles == {"t1"}

DefaultTitle == "Untitled"

\* request bodies: JSON objects with any of the keys text and title
Bodies ==
    {<<>>}
    \cup {[text |-> t] : t \in Texts}
    \cup {[title |-> ti] : ti \in Titles}
    \cup {[text |-> t, title |-> ti] : t \in Texts, ti \in Titles}

\* len(t.split()) of the texts of the model, computed once
word_count == [t \in Texts \cup Summaries |-> Len(split(t))]

\* what a call of the summarizer does: raise, or return a summary
ProviderError == "summarizer failed"

Outcomes == {[ok |-> FALSE, summary |-> <<>>]} \cup {[ok |-> TRUE, summary |-> s] : s \in Summaries}

----------------------------------------------------------------------------
\* the compression ratio

Abs(x) == IF x < 0 THEN -x ELSE x

\* n / d rounded to the nearest integer, ties to even (Python's round)
RoundHalfEven(n, d) ==
    LET q == n \div d
        r == n % d
    IN  IF 2 * r < d THEN q
        ELSE IF 2 * r > d THEN q + 1
        ELSE IF q % 2 = 0 THEN q ELSE q + 1

\* round(len(summary.split()) / len(text.split()) * 100, 2), in hundredths
compression_ratio(generated_summary, text) ==
    RoundHalfEven(10000 * word_count[generated_summary], word_count[text])

\* the division raises ZeroDivisionError
ratio_raises(text) == word_count[text] = 0

ZeroDivisionError == "division by zero"

----------------------------------------------------------------------------
\* the Summary table and its rows

\* datetime.isoformat(): the timestamp as an ISO-8601 string
isoformat(t) == <<"iso-8601", t>>

to_dict(self) ==
    [id |-> self.id,
     original_text |-> self.original_text,
     summary_text |-> self.summary_text,
     created_at |-> isoformat(self.created_at),
     updated_at |-> isoformat(self.updated_at),
     title |-> self.title,
     compression_ratio |-> self.compression_ratio]

\* the integer primary key SQLite gives a new row: one more than the largest
\* rowid in use (the column is not declared AUTOINCREMENT)
next_id(store) ==
    IF DOMAIN store = {} THEN 1
    ELSE 1 + (CHOOSE i \in DOMAIN store : \A j \in DOMAIN store : j <= i)

\* Summary(...), db.session.add, db.session.commit: the columns the handler
\* gives, and the column defaults (created_at, then updated_at) at the INSERT
insert(store, text, generated_summary, title, ratio, created, updated) ==
    LET id == next_id(store)
        row == [id |-> id,
                original_text |-> text,
                summary_text |-> generated_summary,
                created_at |-> created,
                updated_at |-> updated,
                title |-> title,
                compression_ratio |-> ratio]
    IN  [i \in DOMAIN store \cup {id} |-> IF i = id THEN row ELSE store[i]]

\* Summary.query.get_or_404 finds the row
found(store, summary_id) == summary_id \in DOMAIN store

\* set_text without its third assignment: the ratio of the old pair stays
set_text_stale_ratio(summary, text, generated_summary) ==
    [summary EXCEPT !.original_text = text,
                    !.summary_text = generated_summary]

\* the three assignments of update_summary for a body with text
set_text(summary, text, generated_summary) ==
    [summary EXCEPT !.original_text = text,
                    !.summary_text = generated_summary,
                    !.compression_ratio = compression_ratio(generated_summary, text)]

\* set_title without its assignment
set_title_dropped(summary, data) == summary

set_title(summary, data) ==
    IF "title" \in DOMAIN data THEN [summary EXCEPT !.title = data.title] ELSE summary

\* touch without its assignment
touch_skipped(summary, t) == summary

touch(summary, t) == [summary EXCEPT !.updated_at = t]

\* db.session.commit() of a modified row: the unit of work writes the
\* columns whose value differs from the value the session loaded
commit(store, loaded, summary) ==
    LET id == loaded.id
        cur == store[id]
        col(f) == IF summary[f] = loaded[f] THEN cur[f] ELSE summary[f]
    IN  [store EXCEPT ![id] =
            [id |-> cur.id,
             original_text |-> col("original_text"),
             summary_text |-> col("summary_text"),
             created_at |-> col("created_at"),
             updated_at |-> col("updated_at"),
             title |-> col("title"),
             compression_ratio |-> col("compression_ratio")]]

\* discard that flushes the pending changes of the row object instead
discard_flush(store, summary) == [store EXCEPT ![summary.id] = summary]

\* a handler that returns without commit: the request's session is removed
\* and its pending changes are discarded
discard(store, summary) == store

\* delete without its commit
delete_uncommitted(store, summary_id) == store

\* db.session.delete and commit
delete(store, summary_id) == [i \in DOMAIN store \ {summary_id} |-> store[i]]

RECURSIVE order_desc(_, _)
order_desc(store, ids) ==
    IF ids = {} THEN <<>>
    ELSE LET first == CHOOSE i \in ids : \A j \in ids : store[j].created_at <= store[i].created_at
         IN  <<store[first]>> \o order_desc(store, ids \ {first})

RECURSIVE order_asc(_, _)
order_asc(store, ids) ==
    IF ids = {} THEN <<>>
    ELSE LET first == CHOOSE i \in ids : \A j \in ids : store[i].created_at <= store[j].created_at
         IN  <<store[first]>> \o order_asc(store, ids \ {first})

\* query_all ordered by created_at ascending
query_all_ascending(store) == order_asc(store, DOMAIN store)

\* Summary.query.order_by(Summary.created_at.desc()).all()
query_all(store) == order_desc(store, DOMAIN store)

----------------------------------------------------------------------------
\* requests and responses

has_text(data) == "text" \in DOMAIN data

\* too_short counting the pieces of text.split(" "): one more than the spaces
too_short_single_space(text) ==
    Cardinality({i \in 1..Len(text) : text[i] = " "}) + 1 < MinWords

\* too_short with the comparison off by one
too_short_off_by_one(text) == word_count[text] < MinWords - 1

\* len(data["text"].split()) < 10
too_short(text) == word_count[text] < MinWords

Request(op, id, data) == [op |-> op, id |-> id, data |-> data]

Response(status, error, message, records, provider) ==
    [status |-> status, error |-> error, message |-> message,
     records |-> records, provider |-> provider]

NotFound == Response(404, "Not Found", "", <<>>, "not called")

NoRequest == Request("none", 0, <<>>)

NoResponse == Response(0, "", "", <<>>, "not called")

\* no request context is open: the server waits for a request
waiting == req = NoRequest

\* the requests that can be in progress at once (the threads of the server)
Requests == 1..MaxRequests

\* a thread's session: where its update_summary stands, the request, the row
\* as get_or_404 loaded it and the row object as the handler has changed it
Idle == [pc |-> "idle"]

Session(pc, summary_id, data, loaded, summary) ==
    [pc |-> pc, id |-> summary_id, data |-> data, loaded |-> loaded, summary |-> summary]

Init ==
    /\ db = <<>>
    /\ now = 0
    /\ req = NoRequest
    /\ resp = NoResponse
    /\ sess = [r \in Requests |-> Idle]

\* POST /api/summaries/
create_summary(data) ==
    /\ waiting
    /\ req' = Request("create", 0, data)
    /\ UNCHANGED sess
    /\ IF ~has_text(data)
       THEN /\ resp' = Response(400, "No text provided", "", <<>>, "not called")
            /\ UNCHANGED <<db, now>>
       ELSE IF too_short(data.text)
       THEN /\ resp' = Response(200, "this text is too short to summarize", "", <<>>, "not called")
            /\ UNCHANGED <<db, now>>
       ELSE \E out \in Outcomes :
            IF ~out.ok
            THEN /\ resp' = Response(500, ProviderError, "", <<>>, "raised")
                 /\ UNCHANGED <<db, now>>
            ELSE /\ Cardinality(DOMAIN db) < MaxRecords
                 /\ \E created \in {now + 1}, updated \in {now + 1, now + 2} :
                        /\ updated <= MaxTime
                        /\ now' = updated
                        /\ db' = insert(db, data.text, out.summary,
                                        IF "title" \in DOMAIN data THEN data.title ELSE DefaultTitle,
                                        compression_ratio(out.summary, data.text),
                                        created, updated)
                 /\ resp' = Response(201, "", "", <<to_dict(db'[next_id(db)])>>, "returned")

\* GET /api/summaries
get_summaries ==
    /\ waiting
    /\ req' = Request("list", 0, <<>>)
    /\ resp' = Response(200, "", "", [i \in 1..Len(query_all(db)) |-> to_dict(query_all(db)[i])], "not called")
    /\ UNCHANGED <<db, now, sess>>

\* GET /api/summaries/<id>
get_summary(summary_id) ==
    /\ waiting
    /\ req' = Request("get", summary_id, <<>>)
    /\ resp' = IF found(db, summary_id)
               THEN Response(200, "", "", <<to_dict(db[summary_id])>>, "not called")
               ELSE NotFound
    /\ UNCHANGED <<db, now, sess>>

\* PUT /api/summaries/<id>
update_summary(summary_id, data) ==
    /\ waiting
    /\ req' = Request("update", summary_id, data)
    /\ UNCHANGED sess
    /\ IF ~found(db, summary_id)
       THEN /\ resp' = NotFound
            /\ UNCHANGED <<db, now>>
       ELSE LET loaded == db[summary_id] IN
            \E out \in IF has_text(data) THEN Outcomes ELSE {[ok |-> TRUE, summary |-> <<>>]} :
            IF has_text(data) /\ ~out.ok
            THEN /\ resp' = Response(500, ProviderError, "", <<>>, "raised")
                 /\ db' = discard(db, loaded)
                 /\ UNCHANGED now
            ELSE IF has_text(data) /\ ratio_raises(data.text)
            THEN /\ resp' = Response(500, ZeroDivisionError, "", <<>>, "returned")
                 /\ db' = discard(db, [loaded EXCEPT !.original_text = data.text,
                                                     !.summary_text = out.summary])
                 /\ UNCHANGED now
            ELSE /\ now < MaxTime
                 /\ now' = now + 1
                 /\ LET s1 == IF has_text(data) THEN set_text(loaded, data.text, out.summary) ELSE loaded
                        s2 == set_title(s1, data)
                        s3 == touch(s2, now')
                    IN  db' = commit(db, loaded, s3)
                 /\ resp' = Response(200, "", "", <<to_dict(db'[summary_id])>>,
                                     IF has_text(data) THEN "returned" ELSE "not called")

\* DELETE /api/summaries/<id>
delete_summary(summary_id) ==
    /\ waiting
    /\ req' = Request("delete", summary_id, <<>>)
    /\ UNCHANGED <<now, sess>>
    /\ IF ~found(db, summary_id)
       THEN /\ resp' = NotFound
            /\ UNCHANGED db
       ELSE /\ db' = delete(db, summary_id)
            /\ resp' = Response(200, "", "Summary deleted successfully", <<>>, "not called")

\* the response is sent and the request context torn down (req and resp
\* hold one exchange from its response to this point)
teardown_request ==
    /\ ~waiting
    /\ req' = NoRequest
    /\ resp' = NoResponse
    /\ UNCHANGED <<db, now, sess>>

\* the ids requests name
Ids == 1..MaxRecords

Next ==
    \/ \E data \in Bodies : create_summary(data)
    \/ get_summaries
    \/ \E id \in Ids : get_summary(id)
    \/ \E id \in Ids, data \in Bodies : update_summary(id, data)
    \/ \E id \in Ids : delete_summary(id)
    \/ teardown_request

Spec == Init /\ [][Next]_vars

----------------------------------------------------------------------------
\* update_summary on the threaded server: the other threads run between its
\* query, its call of the summarizer and its commit

\* line 101: Summary.query.get_or_404(summary_id)
update_load(r, summary_id, data) ==
    /\ waiting
    /\ sess[r].pc = "idle"
    /\ UNCHANGED <<db, now>>
    /\ IF ~found(db, summary_id)
       THEN /\ req' = Request("update", summary_id, data)
            /\ resp' = NotFound
            /\ UNCHANGED sess
       ELSE /\ sess' = [sess EXCEPT ![r] = Session("loaded", summary_id, data, db[summary_id], db[summary_id])]
            /\ UNCHANGED <<req, resp>>

\* lines 102-121: the summarizer, the assignments, the clock
update_assign(r) ==
    /\ waiting
    /\ sess[r].pc = "loaded"
    /\ LET data == sess[r].data
           loaded == sess[r].loaded
       IN
       \E out \in IF has_text(data) THEN Outcomes ELSE {[ok |-> TRUE, summary |-> <<>>]} :
            IF has_text(data) /\ ~out.ok
            THEN /\ req' = Request("update", sess[r].id, data)
                 /\ resp' = Response(500, ProviderError, "", <<>>, "raised")
                 /\ db' = discard(db, loaded)
                 /\ sess' = [sess EXCEPT ![r] = Idle]
                 /\ UNCHANGED now
            ELSE IF has_text(data) /\ ratio_raises(data.text)
            THEN /\ req' = Request("update", sess[r].id, data)
                 /\ resp' = Response(500, ZeroDivisionError, "", <<>>, "returned")
                 /\ db' = discard(db, [loaded EXCEPT !.original_text = data.text,
                                                     !.summary_text = out.summary])
                 /\ sess' = [sess EXCEPT ![r] = Idle]
                 /\ UNCHANGED now
            ELSE /\ now < MaxTime
                 /\ now' = now + 1
                 /\ LET s1 == IF has_text(data) THEN set_text(loaded, data.text, out.summary) ELSE loaded
                        s2 == set_title(s1, data)
                        s3 == touch(s2, now')
                    IN  sess' = [sess EXCEPT ![r] = Session("assigned", sess[r].id, data, loaded, s3)]
                 /\ UNCHANGED <<db, req, resp>>

\* lines 122-124: db.session.commit() and the response
update_commit(r) ==
    /\ waiting
    /\ sess[r].pc = "assigned"
    /\ req' = Request("update", sess[r].id, sess[r].data)
    /\ sess' = [sess EXCEPT ![r] = Idle]
    /\ UNCHANGED now
    /\ db' = commit(db, sess[r].loaded, sess[r].summary)
    /\ resp' = Response(200, "", "", <<to_dict(db'[sess[r].id])>>,
                        IF has_text(sess[r].data) THEN "returned" ELSE "not called")

\* the bodies of the overlapping updates: a new text, a new title, or both
ThreadedBodies == {data \in Bodies : has_text(data) => ~too_short(data.text)} \ {<<>>}

\* one row under overlapping updates: a first create, then updates of it
NextThreaded ==
    \/ \E data \in Bodies : DOMAIN db = {} /\ create_summary(data)
    \/ \E r \in Requests, id \in Ids, data \in ThreadedBodies : update_load(r, id, data)
    \/ \E r \in Requests : update_assign(r)
    \/ \E r \in Requests : update_commit(r)
    \/ teardown_request

SpecThreaded == Init /\ [][NextThreaded]_vars

----------------------------------------------------------------------------
\* the properties

\* the words of a stored or submitted text
Wc(text) == word_count[text]

\* r hundredths is 100 * s / o rounded to two decimals
IsRounded(r, s, o) == o > 0 /\ 2 * Abs(r * o - 10000 * s) <= o

Triple(row) == <<row.original_text, row.summary_text, row.compression_ratio>>

\* C1: in every state, every stored row's compression_ratio is
\* round(100 * words(summary_text) / words(original_text), 2) of the texts
\* stored in that same row.
C1_RatioConsistent ==
    \A id \in DOMAIN db :
        IsRounded(db[id].compression_ratio, Wc(db[id].summary_text), Wc(db[id].original_text))

\* a row whose text an Update replaced (only Update stores a short text),
\* with a ratio that needed rounding
C1_Witness ==
    /\ req.op = "update" /\ resp.status = 200
    /\ \E id \in DOMAIN db :
          /\ Wc(db[id].original_text) = 9
          /\ db[id].compression_ratio = 2222
          /\ db[id].updated_at > db[id].created_at

\* C2: an Update carrying text whose summarization step fails (the summarizer
\* raises, or the ratio cannot be computed) answers 500 with the failure's
\* description and leaves the table, every field of the row included, as it
\* was; a Get of a stored row returns the row as stored.
C2_FailedUpdateLeavesRow ==
    [][/\ (/\ req'.op = "update" /\ found(db, req'.id) /\ has_text(req'.data)
           /\ (resp'.provider = "raised" \/ Wc(req'.data.text) = 0))
          => (resp'.status = 500 /\ resp'.error # "" /\ db' = db /\ now' = now)
       /\ (req'.op = "get" /\ found(db, req'.id))
          => (resp'.status = 200 /\ resp'.records = <<to_dict(db[req'.id])>> /\ db' = db)
      ]_vars

\* a failed Update that carried text and title, on a stored row
C2_Witness ==
    /\ req.op = "update" /\ resp.status = 500
    /\ DOMAIN req.data = {"text", "title"}
    /\ req.id \in DOMAIN db
    /\ db[req.id].title # req.data.title

\* C3: a Create changes the table only by adding one row, and only when its
\* text has at least 10 words and the summarizer returned; with text absent
\* or shorter, or the summarizer raising, the table is unchanged, and the
\* summarizer's failure is answered 500 with its description.
C3_CreateOnlyIfValid ==
    [][req'.op = "create" =>
        LET data == req'.data
            valid == has_text(data) /\ Wc(data.text) >= 10
        IN  /\ db' # db =>
                /\ valid /\ resp'.provider = "returned" /\ resp'.status = 201
                /\ \E id \in DOMAIN db' \ DOMAIN db :
                      /\ DOMAIN db' = DOMAIN db \cup {id}
                      /\ db'[id].original_text = data.text
                /\ \A j \in DOMAIN db : db'[j] = db[j]
            /\ (~valid \/ resp'.provider = "raised") => db' = db
            /\ resp'.provider = "raised" => (resp'.status = 500 /\ resp'.error = ProviderError)
            /\ ~valid => resp'.provider = "not called"
      ]_vars

\* a Create of a valid text refused because the summarizer raised, with a
\* row already stored
C3_Witness ==
    /\ req.op = "create" /\ resp.status = 500 /\ resp.provider = "raised"
    /\ DOMAIN db # {}

\* C4: a Create whose text is absent or has fewer than 10 words is answered
\* with a 4xx status.
C4_ValidationIsClientError ==
    (req.op = "create" /\ (~has_text(req.data) \/ Wc(req.data.text) < 10))
        => resp.status \in 400..499

\* C5: an Update of a stored row with title and no text sets the title,
\* moves updated_at forward, does not call the summarizer and changes
\* nothing else in the table.
C5_TitleOnlyUpdate ==
    [][(req'.op = "update" /\ found(db, req'.id) /\ DOMAIN req'.data = {"title"}) =>
        LET id == req'.id
        IN  /\ resp'.status = 200 /\ resp'.provider = "not called"
            /\ DOMAIN db' = DOMAIN db
            /\ \A j \in DOMAIN db \ {id} : db'[j] = db[j]
            /\ db'[id].id = db[id].id
            /\ db'[id].original_text = db[id].original_text
            /\ db'[id].summary_text = db[id].summary_text
            /\ db'[id].compression_ratio = db[id].compression_ratio
            /\ db'[id].created_at = db[id].created_at
            /\ db'[id].title = req'.data.title
            /\ db'[id].updated_at > db[id].updated_at
      ]_vars

\* a title-only Update that changed the title of one of two rows
C5_Witness ==
    /\ req.op = "update" /\ resp.status = 200
    /\ DOMAIN req.data = {"title"}
    /\ Cardinality(DOMAIN db) = 2
    /\ db[req.id].title = "t1"
    /\ \E j \in DOMAIN db : db[j].title = DefaultTitle

\* C6: List answers with exactly the stored rows, each once, ordered by
\* created_at descending, and changes nothing; a successful Create adds
\* exactly one row.
C6_ListAllDescending ==
    [][/\ req'.op = "list" =>
            LET out == resp'.records
            IN  /\ db' = db /\ resp'.status = 200
                /\ Len(out) = Cardinality(DOMAIN db)
                /\ {out[i].id : i \in 1..Len(out)} = DOMAIN db
                /\ \A i \in 1..Len(out) : out[i] = to_dict(db[out[i].id])
                /\ \A i, j \in 1..Len(out) :
                      i < j => db[out[i].id].created_at >= db[out[j].id].created_at
       /\ (req'.op = "create" /\ resp'.status = 201) =>
            Cardinality(DOMAIN db') = Cardinality(DOMAIN db) + 1
      ]_vars

\* a List of two rows, the later created first
C6_Witness ==
    /\ req.op = "list" /\ Len(resp.records) = 2
    /\ db[resp.records[1].id].created_at > db[resp.records[2].id].created_at

\* C7: Get, Update and Delete of an id that is not stored answer 404,
\* do not call the summarizer and leave the table unchanged; a Delete of a
\* stored id removes that row and no other, so the id is no longer stored.
C7_NotFound ==
    [][/\ (req'.op \in {"get", "update", "delete"} /\ ~(req'.id \in DOMAIN db))
          => (resp'.status = 404 /\ resp'.provider = "not called" /\ db' = db)
       /\ (req'.op = "delete" /\ req'.id \in DOMAIN db)
          => /\ resp'.status = 200
             /\ DOMAIN db' = DOMAIN db \ {req'.id}
             /\ \A j \in DOMAIN db' : db'[j] = db[j]
      ]_vars

\* a Get of id 1 answered 404 after a row was created (as id 1) and deleted
C7_Witness ==
    /\ req.op = "get" /\ req.id = 1 /\ resp.status = 404
    /\ now > 0 /\ DOMAIN db = {}

\* C8: no step changes a stored row's created_at; every stored row has
\* updated_at >= created_at; a successful Update sets the row's updated_at
\* to its own, later, reading of the clock.
C8_Timestamps ==
    [][/\ \A id \in DOMAIN db \cap DOMAIN db' : db'[id].created_at = db[id].created_at
       /\ \A id \in DOMAIN db' : db'[id].updated_at >= db'[id].created_at
       /\ (req'.op = "update" /\ resp'.status = 200) =>
            /\ db'[req'.id].updated_at > db[req'.id].updated_at
            /\ db'[req'.id].updated_at = now'
      ]_vars

\* a row updated twice after its creation
C8_Witness ==
    /\ req.op = "update" /\ resp.status = 200
    /\ db[req.id].created_at = 1
    /\ db[req.id].updated_at = 3

\* C9: when an Update that carries text commits, the stored (original_text,
\* summary_text, compression_ratio) is that Update's own triple or, left
\* whole, the triple stored before: never values of two requests mixed.
C9_NoMixedTriple ==
    [][\A r \in Requests :
        (sess[r].pc = "assigned" /\ sess'[r].pc = "idle" /\ has_text(sess[r].data)) =>
            \/ Triple(db'[sess[r].id]) = Triple(sess[r].summary)
            \/ Triple(db'[sess[r].id]) = Triple(db[sess[r].id])
      ]_vars

\* C10 as claimed: every stored original_text has at least 10 words.
C10_StoredTextAtLeastTenWords ==
    \A id \in DOMAIN db : Wc(db[id].original_text) >= 10

\* C10 as amended: a row enters the table with an original_text of at least
\* 10 words, and every stored original_text has at least one word.
C10_TenWordsAtCreate ==
    [][\A id \in DOMAIN db' :
          /\ Wc(db'[id].original_text) >= 1
          /\ ~(id \in DOMAIN db) => Wc(db'[id].original_text) >= 10
      ]_vars

\* a stored row whose text an Update replaced by one of 9 words
C10_Witness ==
    /\ req.op = "update" /\ resp.status = 200 /\ has_text(req.data)
    /\ Wc(db[req.id].original_text) < 10

====
